---- MODULE Spec2Model ----
(***************************************************************************)
(* User-Device Registry (src/storage/user_registry_service.py).            *)
(*                                                                         *)
(* The registry is a FastAPI service over three PostgreSQL tables.  Every  *)
(* handler takes a pooled connection and runs its statements on it with no *)
(* transaction block, so each statement commits on its own.  The tables    *)
(* are modelled as sets of rows, a statement as an operator from tables to *)
(* tables, and a handler as one action per await: taking the connection,   *)
(* each statement, giving the connection back, and the response sent after *)
(* the handler has returned.  Other requests run between these steps.      *)
(* The registered_at columns are left out: no handler reads or updates     *)
(* them.                                                                   *)
(***************************************************************************)
EXTENDS Integers, FiniteSets, Sequences, Bags, TLC

\* ------------------------------------------------------------------ bounds
\* Number of requests that can be inside their handlers at once.
MaxInFlight == 2

ChatIds == {100, 200}
DeviceIds == {"cam1", "cam-new"}

\* Python None / SQL NULL.
NULL == "<null>"

\* class UserIn: the /register bodies that are sent.  Chat 100 registers
\* under two profiles, each with a field the other leaves out.
UserIn ==
    { [chat_id |-> 100, username |-> "alice", first_name |-> "Alice", last_name |-> NULL],
      [chat_id |-> 100, username |-> NULL, first_name |-> "Al", last_name |-> "Liddell"],
      [chat_id |-> 200, username |-> "bob", first_name |-> NULL, last_name |-> NULL] }

\* class DeviceIn: the /devices bodies that are sent.  A watcher sends its
\* device_id alone (nickname None); cam1 is also given an empty and a
\* non-empty nickname.
DeviceIn ==
    { [device_id |-> d, nickname |-> NULL] : d \in DeviceIds }
    \cup { [device_id |-> "cam1", nickname |-> n] : n \in {"", "kitchen"} }

\* ------------------------------------------------------------------- state
VARIABLES
    registered_users,   \* rows of table registered_users
    devices,            \* rows of table devices
    user_devices,       \* rows of table user_devices
    inflight,           \* bag of the requests inside their handlers, each
                        \* with the await it has reached
    checked_out,        \* number of connections taken from app.state.pool
    wire,               \* the responses the registry has sent that have not
                        \* reached their caller yet
    resp,               \* the last response received by a caller that sends
                        \* one request at a time: what was asked, what its
                        \* statements did to the tables, and the response
    watcher,            \* the watcher of DEVICE_ID (src/observer/main.py)
    bot,                \* the bot's add_device handler (src/bot/main.py)
    gate                \* a request on its way through parameter validation

registry == <<registered_users, devices, user_devices, inflight, checked_out>>
clients == <<wire, resp, watcher, bot, gate>>
vars == <<registered_users, devices, user_devices, inflight, checked_out,
          wire, resp, watcher, bot, gate>>

HTTP_200_OK == 200
HTTP_201_CREATED == 201
HTTP_500_INTERNAL_SERVER_ERROR == 500
\* The status of the framework's answer to a request whose parameters do
\* not validate against the handler's annotations.
HTTP_422_UNPROCESSABLE_ENTITY == 422

NoResp ==
    [op |-> "none", chat_id |-> 0, device_id |-> NULL, arg |-> NULL,
     created |-> 0, effect |-> "none", status |-> 0, body |-> <<>>]

\* ------------------------------------------------------- connection pool
\* pool.acquire(): entering "async with pool.acquire() as c".
Acquire(n) == n + 1

\* Mutant of Release: the connection goes back only when no statement failed.
Release_OnSuccessOnly(n, ok) == IF ok THEN n - 1 ELSE n

\* Leaving the "async with" block, by its end or by an exception (ok false).
Release(n, ok) == n - 1

\* ------------------------------------------------------------ SQL helpers
COALESCE(a, b) == IF a # NULL THEN a ELSE b

HasUser(users, chat_id) == \E u \in users : u.chat_id = chat_id
HasDevice(devs, device_id) == \E d \in devs : d.device_id = device_id
HasSub(subs, chat_id, device_id) ==
    \E s \in subs : s.chat_id = chat_id /\ s.device_id = device_id

\* Mutant of UpsertUser: DO UPDATE SET username = COALESCE($2, username), ...
UpsertUser_Merge(users, chat_id, username, first_name, last_name) ==
    IF HasUser(users, chat_id)
    THEN { IF u.chat_id = chat_id
           THEN [u EXCEPT !.username = COALESCE(username, u.username),
                          !.first_name = COALESCE(first_name, u.first_name),
                          !.last_name = COALESCE(last_name, u.last_name)]
           ELSE u : u \in users }
    ELSE users \cup { [chat_id |-> chat_id, username |-> username,
                       first_name |-> first_name, last_name |-> last_name] }

\* INSERT INTO registered_users ... ON CONFLICT (chat_id) DO UPDATE SET ...
UpsertUser(users, chat_id, username, first_name, last_name) ==
    IF HasUser(users, chat_id)
    THEN { IF u.chat_id = chat_id
           THEN [u EXCEPT !.username = username,
                          !.first_name = first_name,
                          !.last_name = last_name]
           ELSE u : u \in users }
    ELSE users \cup { [chat_id |-> chat_id, username |-> username,
                       first_name |-> first_name, last_name |-> last_name] }

\* Mutant of UpsertDevice: DO UPDATE SET nickname = $2
UpsertDevice_Overwrite(devs, device_id, nickname) ==
    IF HasDevice(devs, device_id)
    THEN { IF d.device_id = device_id
           THEN [d EXCEPT !.nickname = nickname]
           ELSE d : d \in devs }
    ELSE devs \cup { [device_id |-> device_id, nickname |-> nickname] }

\* INSERT INTO devices(device_id, nickname) ... ON CONFLICT (device_id)
\* DO UPDATE SET nickname = COALESCE($2, devices.nickname)
UpsertDevice(devs, device_id, nickname) ==
    IF HasDevice(devs, device_id)
    THEN { IF d.device_id = device_id
           THEN [d EXCEPT !.nickname = COALESCE(nickname, d.nickname)]
           ELSE d : d \in devs }
    ELSE devs \cup { [device_id |-> device_id, nickname |-> nickname] }

\* Mutant of InsertDevice: the insert takes no notice of an existing row.
InsertDevice_NoConflictCheck(devs, device_id) ==
    devs \cup { [device_id |-> device_id, nickname |-> NULL] }

\* Mutant of InsertDevice: a new row gets an empty nickname instead of NULL.
InsertDevice_EmptyNickname(devs, device_id) ==
    IF HasDevice(devs, device_id)
    THEN devs
    ELSE devs \cup { [device_id |-> device_id, nickname |-> ""] }

\* INSERT INTO devices(device_id) VALUES($1) ON CONFLICT DO NOTHING
\* The nickname column has no default, so a new row gets NULL.
InsertDevice(devs, device_id) ==
    IF HasDevice(devs, device_id)
    THEN devs
    ELSE devs \cup { [device_id |-> device_id, nickname |-> NULL] }

\* Mutant of ForeignKeysHold: chat_id does not reference registered_users.
ForeignKeysHold_DeviceOnly(users, devs, chat_id, device_id) ==
    HasDevice(devs, device_id)

\* The foreign keys of user_devices: REFERENCES registered_users, devices.
ForeignKeysHold(users, devs, chat_id, device_id) ==
    HasUser(users, chat_id) /\ HasDevice(devs, device_id)

\* Mutant of InsertSub: no ON CONFLICT clause, an existing row is an error.
InsertSub_NoOnConflict(users, devs, subs, chat_id, device_id) ==
    IF HasSub(subs, chat_id, device_id)
    THEN [ok |-> FALSE, rows |-> subs]
    ELSE IF ForeignKeysHold(users, devs, chat_id, device_id)
         THEN [ok |-> TRUE,
               rows |-> subs \cup { [chat_id |-> chat_id, device_id |-> device_id] }]
         ELSE [ok |-> FALSE, rows |-> subs]

\* INSERT INTO user_devices(chat_id, device_id) ... ON CONFLICT DO NOTHING
\* An existing row is a conflict and nothing is inserted; a new row is
\* inserted and its foreign keys checked, a violation raising an error.
InsertSub(users, devs, subs, chat_id, device_id) ==
    IF HasSub(subs, chat_id, device_id)
    THEN [ok |-> TRUE, rows |-> subs]
    ELSE IF ForeignKeysHold(users, devs, chat_id, device_id)
         THEN [ok |-> TRUE,
               rows |-> subs \cup { [chat_id |-> chat_id, device_id |-> device_id] }]
         ELSE [ok |-> FALSE, rows |-> subs]

\* Mutant of DeleteSub: DELETE FROM user_devices WHERE device_id=$2
DeleteSub_ByDevice(subs, chat_id, device_id) ==
    { s \in subs : s.device_id # device_id }

\* DELETE FROM user_devices WHERE chat_id=$1 AND device_id=$2
DeleteSub(subs, chat_id, device_id) ==
    { s \in subs : ~(s.chat_id = chat_id /\ s.device_id = device_id) }

\* Mutant of SelectSubscribers: the WHERE clause is left out.
SelectSubscribers_AllDevices(subs, device_id) == subs

\* SELECT chat_id FROM user_devices WHERE device_id=$1
SelectSubscribers(subs, device_id) ==
    { s \in subs : s.device_id = device_id }

\* ------------------------------------------------------------------- init
\* DEVICE_ID of the watcher (an environment variable of the process).
DEVICE_ID == "cam1"

\* The watcher before its first notification.
WatcherStart ==
    [pc |-> "start", failed |-> FALSE, chats |-> <<>>, sent |-> <<>>, logged |-> <<>>]

\* The bot before any /add_device command.
BotStart == [pc |-> "idle", chat_id |-> 0, device_id |-> NULL, status |-> 0,
             reply |-> "none"]

\* No request is being validated.
GateStart ==
    [pc |-> "idle", req |-> [op |-> "none", chat_id |-> NULL, device_id |-> NULL],
     status |-> 0]

Init ==
    /\ registered_users = {}
    /\ devices = {}
    /\ user_devices = {}
    /\ inflight = EmptyBag
    /\ wire = {}
    /\ resp = NoResp
    /\ checked_out = 0
    /\ watcher = WatcherStart
    /\ bot = BotStart
    /\ gate = GateStart

\* What a statement did to its table, read off the rows before and after.
\* The handlers discard what execute returns; the request keeps this record
\* so that a state shows which branch of its statement ran.
Effect(old, new) ==
    IF new = old THEN "unchanged"
    ELSE IF Cardinality(new) > Cardinality(old) THEN "inserted"
    ELSE IF Cardinality(new) < Cardinality(old) THEN "deleted"
    ELSE "updated"

\* return {"status": "ok"}: the body of register, register_device, bind and
\* unbind.
StatusOk == [status |-> "ok"]

Response(op, chat_id, device_id, arg, created, effect, status, body) ==
    [op |-> op, chat_id |-> chat_id, device_id |-> device_id, arg |-> arg,
     created |-> created, effect |-> effect, status |-> status, body |-> body]

\* ---------------------------------------------------------------- actions
\* A request inside its handler.  pc is how far the handler has come:
\* "called" (suspended in pool.acquire()), "acquired" (connection taken, no
\* statement run), "between" (bind after its first statement), "executed"
\* (statements done or raised, connection still held).  status and body are
\* those of the response the handler is heading for, empty until its
\* statements have run; an exception has no body of the handler's (the text
\* of the framework's 500 page is left out).  by names the caller that waits
\* for the response.
Request(op, chat_id, device_id, arg, by) ==
    [op |-> op, chat_id |-> chat_id, device_id |-> device_id, arg |-> arg,
     by |-> by, pc |-> "called", created |-> 0, effect |-> "none",
     status |-> 0, body |-> <<>>]

\* The bag with request r replaced by request q.
Replace(r, q) == (inflight (-) SetToBag({r})) (+) SetToBag({q})

\* A handler is called with its validated arguments and reaches
\* "async with pool.acquire() as c".
call(op, chat_id, device_id, arg, by) ==
    /\ BagCardinality(inflight) < MaxInFlight
    /\ inflight' = inflight (+) SetToBag({ Request(op, chat_id, device_id, arg, by) })
    /\ UNCHANGED <<registered_users, devices, user_devices, checked_out>>

\* pool.acquire() gives the handler a connection.
acquire(r) ==
    /\ BagIn(r, inflight) /\ r.pc = "called"
    /\ inflight' = Replace(r, [r EXCEPT !.pc = "acquired"])
    /\ checked_out' = Acquire(checked_out)
    /\ UNCHANGED <<registered_users, devices, user_devices>>

\* POST /register: the handler is called.
register(user) == call("register", user.chat_id, NULL, user, "any")

\* POST /register: the upsert.
register_execute(r) ==
    /\ BagIn(r, inflight) /\ r.op = "register" /\ r.pc = "acquired"
    /\ registered_users' = UpsertUser(registered_users, r.arg.chat_id,
                              r.arg.username, r.arg.first_name, r.arg.last_name)
    /\ inflight' = Replace(r, [r EXCEPT !.pc = "executed",
                                        !.effect = Effect(registered_users, registered_users'),
                                        !.status = HTTP_201_CREATED,
                                        !.body = StatusOk])
    /\ UNCHANGED <<devices, user_devices, checked_out>>

\* POST /devices: the handler is called.
register_device(dev) == call("register_device", 0, dev.device_id, dev, "any")

\* POST /devices: the upsert.
register_device_execute(r) ==
    /\ BagIn(r, inflight) /\ r.op = "register_device" /\ r.pc = "acquired"
    /\ devices' = UpsertDevice(devices, r.arg.device_id, r.arg.nickname)
    /\ inflight' = Replace(r, [r EXCEPT !.pc = "executed",
                                        !.effect = Effect(devices, devices'),
                                        !.status = HTTP_201_CREATED,
                                        !.body = StatusOk])
    /\ UNCHANGED <<registered_users, user_devices, checked_out>>

\* POST /bind: the handler is called.
bind(chat_id, device_id) == call("bind", chat_id, device_id, NULL, "any")

\* POST /bind, first statement: the device insert, committed on its own
\* because the handler opens no transaction.  created is its row count.
bind_device(r) ==
    /\ BagIn(r, inflight) /\ r.op = "bind" /\ r.pc = "acquired"
    /\ devices' = InsertDevice(devices, r.device_id)
    /\ inflight' = Replace(r, [r EXCEPT !.pc = "between",
                    !.created = IF HasDevice(devices, r.device_id) THEN 0 ELSE 1])
    /\ UNCHANGED <<registered_users, user_devices, checked_out>>

\* POST /bind, second statement: the subscription insert.  An error of the
\* statement leaves the handler as an exception, answered 500.
bind_sub(r) ==
    /\ BagIn(r, inflight) /\ r.op = "bind" /\ r.pc = "between"
    /\ LET res == InsertSub(registered_users, devices, user_devices,
                            r.chat_id, r.device_id)
       IN /\ user_devices' = res.rows
          /\ inflight' = Replace(r, [r EXCEPT
                 !.pc = "executed",
                 !.effect = IF res.ok THEN Effect(user_devices, res.rows) ELSE "error",
                 !.status = IF res.ok THEN HTTP_201_CREATED
                            ELSE HTTP_500_INTERNAL_SERVER_ERROR,
                 !.body = IF res.ok THEN StatusOk ELSE <<>>])
    /\ UNCHANGED <<registered_users, devices, checked_out>>

\* POST /bind cut short between its statements: the task is cancelled or
\* the process dies at the await of the second statement.  No response is
\* sent and nothing the first statement committed is undone.
bind_abort(r) ==
    /\ BagIn(r, inflight) /\ r.op = "bind" /\ r.pc = "between"
    /\ inflight' = inflight (-) SetToBag({r})
    /\ checked_out' = Release(checked_out, FALSE)
    /\ UNCHANGED <<registered_users, devices, user_devices>>

\* DELETE /bind: the handler is called.
unbind(chat_id, device_id) == call("unbind", chat_id, device_id, NULL, "any")

\* Mutant of unbind_execute: a device left without subscribers is deleted
\* as well.
unbind_execute_CascadeOrphan(r) ==
    /\ BagIn(r, inflight) /\ r.op = "unbind" /\ r.pc = "acquired"
    /\ user_devices' = DeleteSub(user_devices, r.chat_id, r.device_id)
    /\ devices' = { d \in devices :
                       \/ d.device_id # r.device_id
                       \/ \E s \in user_devices' : s.device_id = r.device_id }
    /\ inflight' = Replace(r, [r EXCEPT !.pc = "executed",
                                        !.effect = Effect(user_devices, user_devices'),
                                        !.status = HTTP_200_OK,
                                        !.body = StatusOk])
    /\ UNCHANGED <<registered_users, checked_out>>

\* DELETE /bind: the delete.
unbind_execute(r) ==
    /\ BagIn(r, inflight) /\ r.op = "unbind" /\ r.pc = "acquired"
    /\ user_devices' = DeleteSub(user_devices, r.chat_id, r.device_id)
    /\ inflight' = Replace(r, [r EXCEPT !.pc = "executed",
                                        !.effect = Effect(user_devices, user_devices'),
                                        !.status = HTTP_200_OK,
                                        !.body = StatusOk])
    /\ UNCHANGED <<registered_users, devices, checked_out>>

\* Mutant of RowOrders: fetchrow in place of fetch, at most one row comes back.
RowOrders_FetchRow(S) == IF S = {} THEN { <<>> } ELSE { <<r>> : r \in S }

\* The orders in which a SELECT without ORDER BY can return a set of rows.
RowOrders(S) ==
    { q \in [1..Cardinality(S) -> S] : \A i, j \in 1..Cardinality(S) : q[i] = q[j] => i = j }

\* GET /subscribers/{device_id}: the handler is called.
subscribers_for_device(device_id) == call("subscribers", 0, device_id, NULL, "any")

\* GET /subscribers/{device_id}: the fetch; the body is [r[0] for r in rows].
subscribers_fetch(r) ==
    /\ BagIn(r, inflight) /\ r.op = "subscribers" /\ r.pc = "acquired"
    /\ \E rows \in RowOrders(SelectSubscribers(user_devices, r.device_id)) :
          inflight' = Replace(r, [r EXCEPT
                 !.pc = "executed", !.effect = "unchanged", !.status = HTTP_200_OK,
                 !.body = [i \in 1..Len(rows) |-> rows[i].chat_id]])
    /\ UNCHANGED <<registered_users, devices, user_devices, checked_out>>

\* The handler leaves the "async with" block, by its end or by the error of
\* a statement: the connection goes back to the pool and, with no await in
\* between, the handler returns (or raises) and the response is sent.
respond(r) ==
    /\ BagIn(r, inflight) /\ r.pc = "executed"
    /\ inflight' = inflight (-) SetToBag({r})
    /\ checked_out' = Release(checked_out, r.status # HTTP_500_INTERNAL_SERVER_ERROR)
    /\ UNCHANGED <<registered_users, devices, user_devices>>

\* The same, for a request whose caller waits for the response: the response
\* leaves the registry and is on its way.
respond_to(r) ==
    /\ r.by # "any"
    /\ respond(r)
    /\ wire' = wire \cup { [to |-> r.by,
                             response |-> Response(r.op, r.chat_id, r.device_id, r.arg,
                                                   r.created, r.effect, r.status, r.body)] }
    /\ UNCHANGED <<resp, watcher, bot, gate>>

\* The same, for a request nobody waits for: the caller keeps no record of
\* the response or has stopped waiting.
respond_unread(r) ==
    /\ r.by = "any"
    /\ respond(r)
    /\ UNCHANGED clients

\* The registry serving the /register bodies U, the /devices bodies D, binds
\* of the pairs B, unbinds of the pairs X and subscriber lists of the devices
\* L, every request running from await to await between the others; the
\* callers keep no record.
Serve(U, D, B, X, L) ==
    \/ \E user \in U : register(user) /\ UNCHANGED clients
    \/ \E dev \in D : register_device(dev) /\ UNCHANGED clients
    \/ \E p \in B : bind(p[1], p[2]) /\ UNCHANGED clients
    \/ \E p \in X : unbind(p[1], p[2]) /\ UNCHANGED clients
    \/ \E d \in L : subscribers_for_device(d) /\ UNCHANGED clients
    \/ \E r \in BagToSet(inflight) : acquire(r) /\ UNCHANGED clients
    \/ \E r \in BagToSet(inflight) : register_execute(r) /\ UNCHANGED clients
    \/ \E r \in BagToSet(inflight) : register_device_execute(r) /\ UNCHANGED clients
    \/ \E r \in BagToSet(inflight) : bind_device(r) /\ UNCHANGED clients
    \/ \E r \in BagToSet(inflight) : bind_sub(r) /\ UNCHANGED clients
    \/ \E r \in BagToSet(inflight) : bind_abort(r) /\ UNCHANGED clients
    \/ \E r \in BagToSet(inflight) : unbind_execute(r) /\ UNCHANGED clients
    \/ \E r \in BagToSet(inflight) : subscribers_fetch(r) /\ UNCHANGED clients
    \/ \E r \in BagToSet(inflight) : respond_unread(r)

\* One /register body per chat.
OneProfileEach == { u \in UserIn : u.username # NULL }

\* Subscriptions under overlapping requests: both chats register, cam1 is
\* given a nickname, both chats bind cam1 and chat 100 binds cam-new too,
\* chat 100 unbinds cam1, both devices are listed.
Next ==
    Serve(OneProfileEach,
          { d \in DeviceIn : d.nickname = "kitchen" },
          (ChatIds \X {"cam1"}) \cup { <<100, "cam-new">> },
          { <<100, "cam1">> },
          DeviceIds)

Spec == Init /\ [][Next]_vars

\* Profiles and nicknames under overlapping requests: every /register body,
\* every /devices body of cam1, and chat 100 binding, unbinding and listing
\* cam1.
NextUpsert ==
    Serve(UserIn,
          { d \in DeviceIn : d.device_id = "cam1" },
          { <<100, "cam1">> }, { <<100, "cam1">> }, { "cam1" })

SpecUpsert == Init /\ [][NextUpsert]_vars

\* A caller that sends one request at a time, the next one after it has
\* received the response to the last, and keeps the last response.
caller_send(op, chat_id, device_id, arg) ==
    /\ inflight = EmptyBag /\ wire = {}
    /\ call(op, chat_id, device_id, arg, "caller")
    /\ UNCHANGED clients

\* The response reaches that caller.
caller_receive ==
    /\ \E m \in wire :
          /\ m.to = "caller"
          /\ resp' = m.response
          /\ wire' = wire \ { m }
    /\ UNCHANGED registry
    /\ UNCHANGED <<watcher, bot, gate>>

\* The registry serving the requests of that caller, with every body and
\* every pair.
NextSeq ==
    \/ \E user \in UserIn : caller_send("register", user.chat_id, NULL, user)
    \/ \E dev \in DeviceIn : caller_send("register_device", 0, dev.device_id, dev)
    \/ \E c \in ChatIds, d \in DeviceIds : caller_send("bind", c, d, NULL)
    \/ \E c \in ChatIds, d \in DeviceIds : caller_send("unbind", c, d, NULL)
    \/ \E d \in DeviceIds : caller_send("subscribers", 0, d, NULL)
    \/ \E r \in BagToSet(inflight) : acquire(r) /\ UNCHANGED clients
    \/ \E r \in BagToSet(inflight) : register_execute(r) /\ UNCHANGED clients
    \/ \E r \in BagToSet(inflight) : register_device_execute(r) /\ UNCHANGED clients
    \/ \E r \in BagToSet(inflight) : bind_device(r) /\ UNCHANGED clients
    \/ \E r \in BagToSet(inflight) : bind_sub(r) /\ UNCHANGED clients
    \/ \E r \in BagToSet(inflight) : unbind_execute(r) /\ UNCHANGED clients
    \/ \E r \in BagToSet(inflight) : subscribers_fetch(r) /\ UNCHANGED clients
    \/ \E r \in BagToSet(inflight) : respond_to(r)
    \/ caller_receive

SpecSeq == Init /\ [][NextSeq]_vars

\* ------------------------------------------------------------ properties
UserRows(users, chat_id) == { u \in users : u.chat_id = chat_id }
DeviceRows(devs, device_id) == { d \in devs : d.device_id = device_id }
SubRows(subs, chat_id, device_id) ==
    { s \in subs : s.chat_id = chat_id /\ s.device_id = device_id }
InFlight == BagToSet(inflight)

\* The request a step of a handler has put in the bag: the one that went
\* through the step, as it is after it.
After ==
    CHOOSE q \in BagToSet(inflight') : CopiesIn(q, inflight') > CopiesIn(q, inflight)

\* The elements of a sequence.
Elems(seq) == { seq[i] : i \in 1..Len(seq) }

\* C1: a bind for a chat_id with no user row fails and leaves the registry as
\* it was before the request: the device row its first statement inserted is
\* not there any more, and no subscription or user row was added.
C1_BindUnknownUserRollsBack ==
    [][\A r \in InFlight :
         (bind_sub(r) /\ ~HasUser(registered_users, r.chat_id)) =>
            /\ After.status # HTTP_201_CREATED
            /\ (r.created = 1 => ~HasDevice(devices', r.device_id))
            /\ user_devices' = user_devices
            /\ registered_users' = registered_users]_vars

\* C2: every subscription row has its user row and its device row, whatever
\* the requests in flight have and have not done yet.
C2_SubscriptionHasUserAndDevice ==
    \A s \in user_devices :
        /\ HasUser(registered_users, s.chat_id)
        /\ HasDevice(devices, s.device_id)

\* C2 witness: a subscription exists while a bind for an unregistered chat
\* has failed on its second statement and another request is in its handler.
C2_Witness ==
    /\ user_devices # {}
    /\ BagCardinality(inflight) = MaxInFlight
    /\ \E r \in InFlight :
          r.op = "bind" /\ r.status = HTTP_500_INTERNAL_SERVER_ERROR

\* C3: the second statement of a bind of a registered user succeeds whether
\* or not the pair is already subscribed, and leaves exactly one row for the
\* pair; the list fetched for a device holds each subscribed chat exactly
\* once and no other chat.
C3_BindTwiceOneRow ==
    [][/\ \A r \in InFlight :
            (bind_sub(r) /\ HasUser(registered_users, r.chat_id)) =>
               /\ After.status = HTTP_201_CREATED
               /\ Cardinality(SubRows(user_devices', r.chat_id, r.device_id)) = 1
               /\ (HasSub(user_devices, r.chat_id, r.device_id)
                     => user_devices' = user_devices)
       /\ \A r \in InFlight :
            subscribers_fetch(r) =>
               \A c \in ChatIds :
                  Cardinality({ i \in 1..Len(After.body) : After.body[i] = c })
                     = IF HasSub(user_devices, c, r.device_id) THEN 1 ELSE 0]_vars

\* C3 witness: the second statement of a bind of an already subscribed pair
\* has succeeded without adding a row, and the pair's row is there.
C3_Witness ==
    \E r \in InFlight :
        /\ r.op = "bind" /\ r.pc = "executed" /\ r.status = HTTP_201_CREATED
        /\ r.effect = "unchanged"
        /\ HasSub(user_devices, r.chat_id, r.device_id)

\* C4: when binds of two registered users for the same device overlap, each
\* one's second statement succeeds and adds its row without removing any
\* other, the device has exactly one row, and at most one of the two
\* inserted the device.
C4_ConcurrentBindsSameDevice ==
    [][\A r \in InFlight :
         (/\ bind_sub(r)
          /\ HasUser(registered_users, r.chat_id)
          /\ \E o \in InFlight :
                o.op = "bind" /\ o.device_id = r.device_id /\ o.chat_id # r.chat_id)
         =>
            /\ After.status = HTTP_201_CREATED
            /\ HasSub(user_devices', r.chat_id, r.device_id)
            /\ user_devices \subseteq user_devices'
            /\ Cardinality(DeviceRows(devices', r.device_id)) = 1
            /\ \A o \in InFlight :
                 (o.op = "bind" /\ o.device_id = r.device_id /\ o.chat_id # r.chat_id)
                    => r.created + o.created <= 1]_vars

\* C4 witness: two binds of different chats for the same device are both
\* past their second statement with status 201 and not yet answered; one of
\* them inserted the device, and both subscription rows are there.
C4_Witness ==
    \E r, o \in InFlight :
        /\ r.op = "bind" /\ o.op = "bind"
        /\ r.pc = "executed" /\ o.pc = "executed"
        /\ r.device_id = o.device_id /\ r.chat_id # o.chat_id
        /\ r.status = HTTP_201_CREATED /\ o.status = HTTP_201_CREATED
        /\ r.created = 1 /\ o.created = 0
        /\ HasSub(user_devices, r.chat_id, r.device_id)
        /\ HasSub(user_devices, o.chat_id, o.device_id)

\* C5: the two statements of bind are one transaction: while a bind that
\* inserted its device is between its statements no request can see the
\* device row, and a bind cut short there leaves no device row it inserted.
C5_BindIsOneTransaction ==
    [][/\ \A q \in BagToSet(inflight') :
            (q.pc = "between" /\ q.created = 1) => ~HasDevice(devices', q.device_id)
       /\ \A r \in InFlight :
            (bind_abort(r) /\ r.created = 1) => ~HasDevice(devices', r.device_id)]_vars

\* C6: the upsert of a register call leaves exactly one user row for its
\* chat_id, holding the call's username, first_name and last_name, nulls
\* included; the rows of other chats are as they were, and no other step
\* changes a user row.
C6_RegisterOverwrites ==
    [][/\ \A r \in InFlight :
            register_execute(r) =>
               /\ UserRows(registered_users', r.chat_id) = { r.arg }
               /\ \A c \in ChatIds \ { r.chat_id } :
                    UserRows(registered_users', c) = UserRows(registered_users, c)
       /\ (\A r \in InFlight : ~register_execute(r))
             => registered_users' = registered_users]_vars

\* C6 witness: the upsert of a register call whose username is null has
\* replaced a row of its chat, and the row is the call's body.
C6_Witness ==
    \E r \in InFlight :
        /\ r.op = "register" /\ r.pc = "executed" /\ r.effect = "updated"
        /\ r.arg.username = NULL
        /\ UserRows(registered_users, r.chat_id) = { r.arg }

\* C7: the upsert of register_device with a null nickname on an existing
\* device leaves the stored nickname as it is, with a non-null nickname it
\* stores the supplied one, and either way the device has exactly one row
\* and the rows of other devices are as they were.
C7_RegisterDeviceMerges ==
    [][\A r \in InFlight :
         register_device_execute(r) =>
            /\ Cardinality(DeviceRows(devices', r.device_id)) = 1
            /\ (r.arg.nickname = NULL /\ HasDevice(devices, r.device_id))
                  => devices' = devices
            /\ r.arg.nickname # NULL => DeviceRows(devices', r.device_id) = { r.arg }
            /\ \A d \in DeviceIds \ { r.device_id } :
                 DeviceRows(devices', d) = DeviceRows(devices, d)]_vars

\* C7 witness: the upsert of a register_device without nickname has run on a
\* device whose row holds a nickname and left it there.
C7_Witness ==
    \E r \in InFlight :
        /\ r.op = "register_device" /\ r.pc = "executed"
        /\ r.arg.nickname = NULL /\ r.effect = "unchanged"
        /\ \E d \in DeviceRows(devices, r.device_id) : d.nickname = "kitchen"

\* C8: register_device with an empty nickname on a device whose row holds a
\* non-empty nickname leaves that nickname as it is.
C8_EmptyNicknameKeepsStored ==
    [][\A r \in InFlight :
         (/\ register_device_execute(r)
          /\ r.arg.nickname = ""
          /\ \E d \in DeviceRows(devices, r.device_id) : d.nickname \notin {NULL, ""})
         => devices' = devices]_vars

\* C9: the first statement of bind adds a row with a null nickname for a
\* device that has none and changes nothing for a device that has one; a
\* second statement that succeeds leaves a row for its device; the upsert of
\* a register_device without nickname on a row with a null nickname succeeds
\* and keeps it null.
C9_BindCreatesNicknamelessDevice ==
    [][/\ \A r \in InFlight :
            bind_device(r) =>
               devices' = IF HasDevice(devices, r.device_id) THEN devices
                          ELSE devices \cup { [device_id |-> r.device_id, nickname |-> NULL] }
       /\ \A r \in InFlight :
            (bind_sub(r) /\ After.status = HTTP_201_CREATED) =>
               /\ devices' = devices
               /\ HasDevice(devices', r.device_id)
       /\ \A r \in InFlight :
            (/\ register_device_execute(r)
             /\ r.arg.nickname = NULL
             /\ [device_id |-> r.device_id, nickname |-> NULL] \in devices)
            => /\ After.status = HTTP_201_CREATED
               /\ devices' = devices]_vars

\* C9 witness: a bind that inserted its device has succeeded and the
\* device's row holds a null nickname.
C9_Witness ==
    \E r \in InFlight :
        /\ r.op = "bind" /\ r.pc = "executed" /\ r.status = HTTP_201_CREATED
        /\ r.created = 1 /\ r.effect = "inserted"
        /\ DeviceRows(devices, r.device_id)
              = { [device_id |-> r.device_id, nickname |-> NULL] }

\* C10: an unbind that has its connection can always run its delete and the
\* delete succeeds; it removes the row of its pair when there is one and
\* nothing else, and changes no table when there is none.
C10_UnbindRemovesOnlyItsRow ==
    /\ [](\A r \in InFlight :
            (r.op = "unbind" /\ r.pc = "acquired") => ENABLED unbind_execute(r))
    /\ [][\A r \in InFlight :
            unbind_execute(r) =>
              /\ After.status = HTTP_200_OK
              /\ user_devices' = user_devices
                                   \ { [chat_id |-> r.chat_id, device_id |-> r.device_id] }
              /\ (~HasSub(user_devices, r.chat_id, r.device_id)
                    => user_devices' = user_devices)
              /\ registered_users' = registered_users
              /\ devices' = devices]_vars

\* C10 witness: the delete of an unbind has removed its pair's row, and
\* a row of the same device and a row of the same chat are still there.
C10_Witness ==
    \E r \in InFlight :
        /\ r.op = "unbind" /\ r.pc = "executed" /\ r.effect = "deleted"
        /\ ~HasSub(user_devices, r.chat_id, r.device_id)
        /\ \E s \in user_devices : s.device_id = r.device_id
        /\ \E s \in user_devices : s.chat_id = r.chat_id

\* C11: for a caller that sends one request at a time and a registered chat,
\* the list fetched for a device right after a bind of the pair was answered
\* 201 contains the chat, and right after an unbind of the pair does not; the
\* delete of an unbind that follows a bind which inserted the pair's row gives
\* back the subscription set the bind started from.
C11_BindThenUnbindRoundTrip ==
    [][/\ \A r \in InFlight :
            (/\ subscribers_fetch(r)
             /\ resp.device_id = r.device_id
             /\ resp.op \in {"bind", "unbind"}
             /\ HasUser(registered_users, resp.chat_id))
            => /\ (resp.op = "bind" /\ resp.status = HTTP_201_CREATED)
                     => resp.chat_id \in Elems(After.body)
               /\ resp.op = "unbind" => resp.chat_id \notin Elems(After.body)
       /\ \A r \in InFlight :
            (/\ unbind_execute(r)
             /\ resp.op = "bind" /\ resp.status = HTTP_201_CREATED
             /\ resp.effect = "inserted"
             /\ resp.chat_id = r.chat_id /\ resp.device_id = r.device_id)
            => LET row == [chat_id |-> r.chat_id, device_id |-> r.device_id]
               IN /\ row \notin user_devices'
                  /\ user_devices' \cup { row } = user_devices]_vars

\* C11 witness: the caller's bind of a pair was answered 201 after inserting
\* the row, and the delete of its next request, the unbind of that pair, has
\* removed the row while the chat still follows another device.
C11_Witness ==
    \E r \in InFlight :
        /\ r.op = "unbind" /\ r.pc = "executed" /\ r.effect = "deleted"
        /\ resp.op = "bind" /\ resp.status = HTTP_201_CREATED
        /\ resp.effect = "inserted"
        /\ resp.chat_id = r.chat_id /\ resp.device_id = r.device_id
        /\ SelectSubscribers(user_devices, r.device_id) = {}
        /\ \E s \in user_devices : s.chat_id = r.chat_id

\* C12: a list_subscribers that has its connection can always run its
\* fetch and the fetch succeeds; the body holds the chat ids that have a
\* subscription row for the device at that moment, each once, and no other;
\* the fetch changes no user, device or subscription row.
C12_SubscribersExactlyTheRows ==
    /\ [](\A r \in InFlight :
            (r.op = "subscribers" /\ r.pc = "acquired") => ENABLED subscribers_fetch(r))
    /\ [][\A r \in InFlight :
            subscribers_fetch(r) =>
              /\ After.status = HTTP_200_OK
              /\ Elems(After.body)
                   = { c \in ChatIds : HasSub(user_devices, c, r.device_id) }
              /\ Len(After.body) = Cardinality(Elems(After.body))
              /\ registered_users' = registered_users
              /\ devices' = devices
              /\ user_devices' = user_devices]_vars

\* C12 witness: the empty list has been fetched for a device that has no
\* row while another device has subscribers.
C12_Witness ==
    \E r \in InFlight :
        /\ r.op = "subscribers" /\ r.pc = "executed"
        /\ r.status = HTTP_200_OK /\ r.body = <<>>
        /\ ~HasDevice(devices, r.device_id)
        /\ user_devices # {}

\* The request r asks what the caller's last answered request asked.
SameAsLast(r) ==
    /\ resp.op = r.op
    /\ resp.chat_id = r.chat_id /\ resp.device_id = r.device_id
    /\ resp.arg = r.arg

\* C13: for a caller that sends one request at a time, the request answered
\* last, sent again with the same arguments, changes no table and ends with
\* the same status; this holds for register, register_device, unbind, and
\* for bind answered 201 or 500.
C13_MutationsIdempotent ==
    [][\A r \in InFlight :
         SameAsLast(r) =>
            /\ register_execute(r)
                 => registered_users' = registered_users /\ After.status = resp.status
            /\ register_device_execute(r)
                 => devices' = devices /\ After.status = resp.status
            /\ unbind_execute(r)
                 => user_devices' = user_devices /\ After.status = resp.status
            /\ bind_device(r) => devices' = devices
            /\ bind_sub(r)
                 => user_devices' = user_devices /\ After.status = resp.status]_vars

\* C13 witness: a bind for an unregistered chat was answered 500 after its
\* first statement inserted the device row; the same bind, sent again, found
\* the device there and has failed the same way.
C13_Witness ==
    \E r \in InFlight :
        /\ r.op = "bind" /\ r.pc = "executed" /\ SameAsLast(r)
        /\ resp.status = HTTP_500_INTERNAL_SERVER_ERROR /\ resp.created = 1
        /\ r.status = HTTP_500_INTERNAL_SERVER_ERROR /\ r.created = 0
        /\ ~HasUser(registered_users, r.chat_id)

\* C14: a bind that fails because its chat_id has no user row ends with a
\* status of the 4xx class.
C14_BindUnknownUserIsClientError ==
    \A r \in InFlight :
        (r.op = "bind" /\ r.effect = "error") => r.status \in 400..499

\* The connections held by the requests in flight: one for each request
\* that is past pool.acquire().
Held ==
    LET past == { r \in InFlight : r.pc # "called" }
        Sum[S \in SUBSET past] ==
            IF S = {} THEN 0
            ELSE LET r == CHOOSE x \in S : TRUE
                 IN CopiesIn(r, inflight) + Sum[S \ {r}]
    IN Sum[past]

\* C16: the connections checked out of the pool are those of the requests
\* past pool.acquire(), one each; when no request is in flight, whether the
\* last one ended by a response, a storage error or a cancellation, none is
\* checked out.
C16_ConnectionsReturned ==
    /\ checked_out = Held
    /\ inflight = EmptyBag => checked_out = 0

\* C16 witness: a bind for an unregistered chat has inserted its device and
\* ended without a subscription; no request is in flight and the pool has
\* all its connections back.
C16_Witness ==
    /\ registered_users = {}
    /\ [device_id |-> "cam-new", nickname |-> NULL] \in devices
    /\ inflight = EmptyBag
    /\ checked_out = 0

\* C17: no step removes a user row or a device row: every chat_id and every
\* device_id that has a row keeps one; the delete of an unbind leaves the
\* devices table, nicknames included, as it is.
C17_UsersAndDevicesOnlyGrow ==
    [][/\ \A u \in registered_users : HasUser(registered_users', u.chat_id)
       /\ \A d \in devices : HasDevice(devices', d.device_id)
       /\ Cardinality(registered_users') >= Cardinality(registered_users)
       /\ Cardinality(devices') >= Cardinality(devices)
       /\ \A r \in InFlight :
            unbind_execute(r) => devices' = devices /\ registered_users' = registered_users]_vars

\* C17 witness: the delete of an unbind has removed the last subscription of
\* a device with a nickname and the device row still holds the nickname.
C17_Witness ==
    \E r \in InFlight :
        /\ r.op = "unbind" /\ r.pc = "executed" /\ r.effect = "deleted"
        /\ SelectSubscribers(user_devices, r.device_id) = {}
        /\ [device_id |-> r.device_id, nickname |-> "kitchen"] \in devices

\* --------------------------------------------------- request validation
\* The requests as they arrive, identifiers as text; NULL is an identifier
\* that is not in the request.
GateOps == {"register", "register_device", "bind", "unbind"}
RawChatIds == {NULL, "100", "abc"}
RawDeviceIds == {NULL, "cam1"}
GateRequests == [op : GateOps, chat_id : RawChatIds, device_id : RawDeviceIds]

\* int(text): the integer a text stands for, if it stands for one.
ParseInt(raw) ==
    CASE raw = "100" -> [ok |-> TRUE, v |-> 100]
      [] raw = "200" -> [ok |-> TRUE, v |-> 200]
      [] OTHER -> [ok |-> FALSE, v |-> 0]

\* A parameter or field annotated int: present and the text of an integer.
ParamInt(raw) == raw # NULL /\ ParseInt(raw).ok

\* Mutant of ParamStr: the parameter is Optional[str] = None.
ParamStr_Optional(raw) == TRUE

\* A parameter or field annotated str: present.
ParamStr(raw) == raw # NULL

\* The validation the framework runs from the annotations of each handler:
\* u: UserIn, d: DeviceIn, (chat_id: int, device_id: str).
Validated(req) ==
    CASE req.op = "register" -> ParamInt(req.chat_id)
      [] req.op = "register_device" -> ParamStr(req.device_id)
      [] req.op \in {"bind", "unbind"} ->
            ParamInt(req.chat_id) /\ ParamStr(req.device_id)

\* A request arrives.  One that does not validate is answered 422 by the
\* framework and the handler is not called; one that validates goes on to
\* its handler.
gate_receive(req) ==
    /\ gate.pc = "idle"
    /\ gate' = IF Validated(req)
               THEN [pc |-> "handler", req |-> req, status |-> 0]
               ELSE [pc |-> "idle", req |-> req,
                     status |-> HTTP_422_UNPROCESSABLE_ENTITY]
    /\ UNCHANGED registry
    /\ UNCHANGED <<wire, resp, watcher, bot>>

\* The handler of the validated request is called with the parsed
\* identifiers; from there it runs as every request does, and the next
\* request can arrive.
gate_handler ==
    /\ gate.pc = "handler"
    /\ LET c == ParseInt(gate.req.chat_id).v
           d == gate.req.device_id
       IN CASE gate.req.op = "register" ->
                 register([chat_id |-> c, username |-> "alice",
                           first_name |-> "Alice", last_name |-> NULL])
            [] gate.req.op = "register_device" ->
                 register_device([device_id |-> d, nickname |-> NULL])
            [] gate.req.op = "bind" -> bind(c, d)
            [] gate.req.op = "unbind" -> unbind(c, d)
    /\ gate' = GateStart
    /\ UNCHANGED <<wire, resp, watcher, bot>>

\* The registry behind the framework's validation.
NextGate ==
    \/ \E req \in GateRequests : gate_receive(req)
    \/ gate_handler
    \/ \E r \in BagToSet(inflight) : acquire(r) /\ UNCHANGED clients
    \/ \E r \in BagToSet(inflight) : register_execute(r) /\ UNCHANGED clients
    \/ \E r \in BagToSet(inflight) : register_device_execute(r) /\ UNCHANGED clients
    \/ \E r \in BagToSet(inflight) : bind_device(r) /\ UNCHANGED clients
    \/ \E r \in BagToSet(inflight) : bind_sub(r) /\ UNCHANGED clients
    \/ \E r \in BagToSet(inflight) : unbind_execute(r) /\ UNCHANGED clients
    \/ \E r \in BagToSet(inflight) : respond_unread(r)

SpecGate == Init /\ [][NextGate]_vars

\* A required identifier of the request is missing or malformed: chat_id
\* not the text of an integer, device_id absent.
MissingOrMalformed(req) ==
    \/ /\ req.op \in {"register", "bind", "unbind"}
       /\ req.chat_id \notin {"100", "200"}
    \/ /\ req.op \in {"register_device", "bind", "unbind"}
       /\ req.device_id = NULL

\* C15: a request with a missing or malformed required identifier never
\* reaches its handler, where the connection is acquired; it is answered
\* with a 4xx status, no connection is taken and no table and no request in
\* flight changes.
C15_MalformedRejectedBeforeStorage ==
    /\ [](gate.pc = "handler" => ~MissingOrMalformed(gate.req))
    /\ [][gate.pc = "idle" =>
          \A req \in GateRequests :
            (gate_receive(req) /\ MissingOrMalformed(req))
            => /\ gate'.pc = "idle"
               /\ gate'.req = req
               /\ gate'.status \in 400..499
               /\ checked_out' = checked_out
               /\ inflight' = inflight
               /\ registered_users' = registered_users
               /\ devices' = devices
               /\ user_devices' = user_devices]_vars

\* C15 witness: a bind with a chat_id that is no integer has been rejected
\* while a request that validated is in its handler, holding the one
\* connection checked out; the tables hold the rows earlier requests wrote.
C15_Witness ==
    /\ gate.pc = "idle" /\ gate.status = HTTP_422_UNPROCESSABLE_ENTITY
    /\ gate.req.op = "bind"
    /\ gate.req.chat_id = "abc" /\ gate.req.device_id = "cam1"
    /\ checked_out = 1
    /\ registered_users # {}
    /\ devices # {}

\* ---------------------------------------------------------------- clients
\* The bag after a caller has stopped waiting for its request (timeout of
\* requests/aiohttp, 5 seconds): the handler goes on, nobody reads the
\* response.
Abandoned(by) ==
    LET mine == { r \in BagToSet(inflight) : r.by = by }
    IN IF mine = {} THEN inflight
       ELSE LET r == CHOOSE x \in mine : TRUE
            IN Replace(r, [r EXCEPT !.by = "any"])

\* The responses on their way after a caller has stopped waiting: the one
\* addressed to it is dropped with its connection.
Undelivered(by) == { m \in wire : m.to # by }

\* ---------------------------------------------------------------- watcher
\* _register_device: POST /devices with the device_id alone.
watcher_register_device ==
    /\ watcher.pc = "start"
    /\ call("register_device", 0, DEVICE_ID,
            [device_id |-> DEVICE_ID, nickname |-> NULL], "watcher")
    /\ watcher' = [watcher EXCEPT !.pc = "registering"]
    /\ UNCHANGED <<wire, resp, bot, gate>>

\* _register_device, requests.post returns: the response has arrived and is
\* not read.
watcher_registered ==
    /\ watcher.pc = "registering"
    /\ \E m \in wire : m.to = "watcher" /\ wire' = wire \ { m }
    /\ watcher' = [watcher EXCEPT !.pc = "idle"]
    /\ UNCHANGED registry
    /\ UNCHANGED <<resp, bot, gate>>

\* _register_device, the request failed (no connection, timeout): the
\* exception is logged and the watcher goes on.
watcher_register_failed ==
    /\ watcher.pc \in {"start", "registering"}
    /\ inflight' = Abandoned("watcher")
    /\ wire' = Undelivered("watcher")
    /\ watcher' = [watcher EXCEPT !.pc = "idle"]
    /\ UNCHANGED <<registered_users, devices, user_devices, checked_out,
                   resp, bot, gate>>

\* main, an iteration whose capture_frame succeeded: notify_users calls
\* _load_users, which sends GET /subscribers/DEVICE_ID.  (An iteration whose
\* capture_frame raises logs the error and changes nothing.)
watcher_load_users ==
    /\ watcher.pc = "idle"
    /\ call("subscribers", 0, DEVICE_ID, NULL, "watcher")
    /\ watcher' = [pc |-> "loading", failed |-> FALSE, chats |-> <<>>,
                   sent |-> <<>>, logged |-> <<>>]
    /\ UNCHANGED <<wire, resp, bot, gate>>

\* _load_users in notify_users, requests.get returns: chats = r.json().
watcher_loaded ==
    /\ watcher.pc = "loading"
    /\ \E m \in wire :
          /\ m.to = "watcher"
          /\ wire' = wire \ { m }
          /\ watcher' = [watcher EXCEPT !.pc = "loaded", !.chats = m.response.body]
    /\ UNCHANGED registry
    /\ UNCHANGED <<resp, bot, gate>>

\* _load_users in notify_users, the request failed (no connection, timeout,
\* error status): the exception is logged and chats = [].
watcher_load_failed ==
    /\ watcher.pc \in {"idle", "loading"}
    /\ inflight' = Abandoned("watcher")
    /\ wire' = Undelivered("watcher")
    /\ watcher' = [pc |-> "loaded", failed |-> TRUE, chats |-> <<>>,
                   sent |-> <<>>, logged |-> <<>>]
    /\ UNCHANGED <<registered_users, devices, user_devices, checked_out,
                   resp, bot, gate>>

\* Mutant of notify_targets: the first chat of the list is left out.
notify_targets_SkipFirst(chats) == IF chats = <<>> THEN <<>> ELSE Tail(chats)

\* notify_users after _load_users: the chats a send is attempted to, none
\* when "not chats", else one _send_to_chat per entry of the list.
notify_targets(chats) == IF chats = <<>> THEN <<>> ELSE [i \in 1..Len(chats) |-> chats[i]]

\* notify_users, the sends: asyncio.gather over the loaded chats; with an
\* empty list notify_users returns without sending.
watcher_notify_users ==
    /\ watcher.pc = "loaded"
    /\ watcher' = [watcher EXCEPT !.pc = "notified",
                                  !.sent = notify_targets(watcher.chats)]
    /\ UNCHANGED registry
    /\ UNCHANGED <<wire, resp, bot, gate>>

\* main after notify_users: _load_users is called again for the log line
\* "Sent to subscribers".
watcher_log_load_users ==
    /\ watcher.pc = "notified"
    /\ call("subscribers", 0, DEVICE_ID, NULL, "watcher")
    /\ watcher' = [watcher EXCEPT !.pc = "logging"]
    /\ UNCHANGED <<wire, resp, bot, gate>>

\* That request answered: the list is logged and sent to nobody; the
\* iteration is over and the watcher sleeps.
watcher_logged ==
    /\ watcher.pc = "logging"
    /\ \E m \in wire :
          /\ m.to = "watcher"
          /\ wire' = wire \ { m }
          /\ watcher' = [pc |-> "idle", failed |-> FALSE, chats |-> <<>>,
                         sent |-> <<>>, logged |-> m.response.body]
    /\ UNCHANGED registry
    /\ UNCHANGED <<resp, bot, gate>>

\* That request failed: [] is logged.
watcher_log_load_failed ==
    /\ watcher.pc \in {"notified", "logging"}
    /\ inflight' = Abandoned("watcher")
    /\ wire' = Undelivered("watcher")
    /\ watcher' = [pc |-> "idle", failed |-> TRUE, chats |-> <<>>,
                   sent |-> <<>>, logged |-> <<>>]
    /\ UNCHANGED <<registered_users, devices, user_devices, checked_out,
                   resp, bot, gate>>

\* The watcher of DEVICE_ID and a registry whose subscriptions change while
\* the watcher's requests are in their handlers and while the responses
\* travel: both chats register and bind DEVICE_ID, chat 100 unbinds it.
NextWatcher ==
    \/ watcher_register_device
    \/ watcher_registered
    \/ watcher_register_failed
    \/ watcher_load_users
    \/ watcher_loaded
    \/ watcher_load_failed
    \/ watcher_notify_users
    \/ watcher_log_load_users
    \/ watcher_logged
    \/ watcher_log_load_failed
    \/ \E user \in OneProfileEach : register(user) /\ UNCHANGED clients
    \/ \E c \in ChatIds : bind(c, DEVICE_ID) /\ UNCHANGED clients
    \/ unbind(100, DEVICE_ID) /\ UNCHANGED clients
    \/ \E r \in BagToSet(inflight) : acquire(r) /\ UNCHANGED clients
    \/ \E r \in BagToSet(inflight) : register_execute(r) /\ UNCHANGED clients
    \/ \E r \in BagToSet(inflight) : register_device_execute(r) /\ UNCHANGED clients
    \/ \E r \in BagToSet(inflight) : bind_device(r) /\ UNCHANGED clients
    \/ \E r \in BagToSet(inflight) : bind_sub(r) /\ UNCHANGED clients
    \/ \E r \in BagToSet(inflight) : unbind_execute(r) /\ UNCHANGED clients
    \/ \E r \in BagToSet(inflight) : subscribers_fetch(r) /\ UNCHANGED clients
    \/ \E r \in BagToSet(inflight) : respond_to(r)
    \/ \E r \in BagToSet(inflight) : respond_unread(r)

SpecWatcher == Init /\ [][NextWatcher]_vars

\* C18: the list notify_users loads is the body of the response to the
\* watcher's request for DEVICE_ID, which holds the chats subscribed to
\* DEVICE_ID when the registry fetched them; a notification attempts one
\* send to each chat of that list and to no other chat, and none when the
\* list is empty or the query failed; the list loaded for the log line is
\* sent to nobody.
C18_WatcherSendsToSubscribers ==
    /\ [](watcher.pc = "notified" =>
            /\ Elems(watcher.sent) = Elems(watcher.chats)
            /\ Len(watcher.sent) = Len(watcher.chats)
            /\ (watcher.failed \/ watcher.chats = <<>>) => watcher.sent = <<>>)
    /\ [][/\ \A r \in InFlight :
               (subscribers_fetch(r) /\ r.by = "watcher") =>
                  /\ r.device_id = DEVICE_ID
                  /\ Elems(After.body)
                       = { c \in ChatIds : HasSub(user_devices, c, DEVICE_ID) }
          /\ (watcher'.pc = "loaded" /\ watcher.pc # "loaded") =>
               IF watcher'.failed
               THEN watcher'.chats = <<>>
               ELSE \E m \in wire :
                      /\ m.to = "watcher" /\ m.response.op = "subscribers"
                      /\ m.response.device_id = DEVICE_ID
                      /\ m \notin wire'
                      /\ watcher'.chats = m.response.body
          /\ watcher'.sent # watcher.sent =>
               \/ watcher.pc = "loaded" /\ watcher'.pc = "notified"
               \/ watcher'.sent = <<>>]_vars

\* C18 witness: both chats followed DEVICE_ID when the registry fetched the
\* list for the watcher, the watcher has notified and a send was attempted to
\* both; chat 100 has been unbound since.
C18_Witness ==
    /\ watcher.pc = "notified" /\ ~watcher.failed
    /\ Elems(watcher.sent) = ChatIds
    /\ ~HasSub(user_devices, 100, DEVICE_ID)

\* -------------------------------------------------------------------- bot
\* The payloads the bot's register builds from an update: the profile of the
\* Telegram user, with None for what the user has not set.
BotUserIn ==
    UserIn \cup { [chat_id |-> 200, username |-> "bob", first_name |-> "Bob",
                   last_name |-> "Marley"] }

\* The chats a command can start in: no handler of the bot is waiting for
\* the registry.
BotReady == bot.pc \in {"idle", "replied", "raised"}

\* register: _post_json(url, payload) passes the payload as params, the
\* query string, not as the JSON body.  A None among the values is refused
\* by the client before anything is sent, and the except branch replies with
\* the error; otherwise POST /register goes out without a body.
bot_register(user) ==
    /\ BotReady
    /\ bot' = IF NULL \in {user.username, user.first_name, user.last_name}
              THEN [pc |-> "replied", chat_id |-> user.chat_id, device_id |-> NULL,
                    status |-> 0, reply |-> "register_error"]
              ELSE [pc |-> "registering", chat_id |-> user.chat_id,
                    device_id |-> NULL, status |-> 0, reply |-> "none"]
    /\ UNCHANGED registry
    /\ UNCHANGED <<wire, resp, watcher, gate>>

\* The body-less POST /register is answered: the route's parameter
\* user: UserIn is missing, so the framework answers 422 and the handler is
\* not called; _post_json does not look at the response and register replies
\* that the registration succeeded.
bot_register_reply ==
    /\ bot.pc = "registering"
    /\ bot' = [bot EXCEPT !.pc = "replied", !.status = HTTP_422_UNPROCESSABLE_ENTITY,
                          !.reply = "registered"]
    /\ UNCHANGED registry
    /\ UNCHANGED <<wire, resp, watcher, gate>>

\* The POST /register fails (no connection, timeout): the except branch
\* replies with the error.
bot_register_raises ==
    /\ bot.pc = "registering"
    /\ bot' = [bot EXCEPT !.pc = "replied", !.reply = "register_error"]
    /\ UNCHANGED registry
    /\ UNCHANGED <<wire, resp, watcher, gate>>

\* add_device without argument: the format hint is the reply.
bot_add_device_usage(chat_id) ==
    /\ BotReady
    /\ bot' = [pc |-> "replied", chat_id |-> chat_id, device_id |-> NULL,
               status |-> 0, reply |-> "usage"]
    /\ UNCHANGED registry
    /\ UNCHANGED <<wire, resp, watcher, gate>>

\* add_device device_id: _post_json sends POST /bind with the chat of the
\* update and the argument as query parameters, and the handler is called.
bot_add_device_post(chat_id, device_id) ==
    /\ BotReady
    /\ call("bind", chat_id, device_id, NULL, "bot")
    /\ bot' = [pc |-> "posted", chat_id |-> chat_id, device_id |-> device_id,
               status |-> 0, reply |-> "none"]
    /\ UNCHANGED <<wire, resp, watcher, gate>>

\* add_device device_id, the registry cannot be reached: s.post raises with
\* no handler called, add_device has no except and sends no reply.
bot_add_device_refused(chat_id, device_id) ==
    /\ BotReady
    /\ bot' = [pc |-> "raised", chat_id |-> chat_id, device_id |-> device_id,
               status |-> 0, reply |-> "none"]
    /\ UNCHANGED registry
    /\ UNCHANGED <<wire, resp, watcher, gate>>

\* The response to the bot's POST /bind arrives; _post_json returns without
\* looking at it (status is kept here for the record only) and add_device
\* replies that the camera is bound.
bot_add_device_reply ==
    /\ bot.pc = "posted"
    /\ \E m \in wire :
          /\ m.to = "bot"
          /\ wire' = wire \ { m }
          /\ bot' = [bot EXCEPT !.pc = "replied", !.status = m.response.status,
                                !.reply = "bound"]
    /\ UNCHANGED registry
    /\ UNCHANGED <<resp, watcher, gate>>

\* The post runs into its timeout after the handler was called: _post_json
\* raises, add_device has no handler for it and sends no reply; the registry
\* goes on with the request.
bot_add_device_raises ==
    /\ bot.pc = "posted"
    /\ inflight' = Abandoned("bot")
    /\ wire' = Undelivered("bot")
    /\ bot' = [bot EXCEPT !.pc = "raised"]
    /\ UNCHANGED <<registered_users, devices, user_devices, checked_out,
                   resp, watcher, gate>>

\* The bot in front of the registry.  The user row of chat 100 comes from a
\* client that sends POST /register with a JSON body, which the bot's own
\* register never does; a DELETE /bind of chat 100 and cam1 is served while
\* the bot's bind is in its handler or its response travels.
NextBot ==
    \/ \E user \in BotUserIn : bot_register(user)
    \/ bot_register_reply
    \/ bot_register_raises
    \/ \E c \in ChatIds : bot_add_device_usage(c)
    \/ \E c \in ChatIds, d \in DeviceIds : bot_add_device_post(c, d)
    \/ \E c \in ChatIds, d \in DeviceIds : bot_add_device_refused(c, d)
    \/ bot_add_device_reply
    \/ bot_add_device_raises
    \/ \E user \in { u \in OneProfileEach : u.chat_id = 100 } :
          register(user) /\ UNCHANGED clients
    \/ unbind(100, DEVICE_ID) /\ UNCHANGED clients
    \/ \E r \in BagToSet(inflight) : acquire(r) /\ UNCHANGED clients
    \/ \E r \in BagToSet(inflight) : register_execute(r) /\ UNCHANGED clients
    \/ \E r \in BagToSet(inflight) : bind_device(r) /\ UNCHANGED clients
    \/ \E r \in BagToSet(inflight) : bind_sub(r) /\ UNCHANGED clients
    \/ \E r \in BagToSet(inflight) : unbind_execute(r) /\ UNCHANGED clients
    \/ \E r \in BagToSet(inflight) : respond_to(r)
    \/ \E r \in BagToSet(inflight) : respond_unread(r)

SpecBot == Init /\ [][NextBot]_vars

\* C19: when add_device replies that the camera is bound, the registry
\* holds the subscription row of the chat and the device, and so the chat
\* has a user row.
C19_BoundReplyMeansSubscribed ==
    [][(bot.pc = "posted" /\ bot'.pc = "replied" /\ bot'.reply = "bound") =>
          /\ HasSub(user_devices', bot'.chat_id, bot'.device_id)
          /\ HasUser(registered_users', bot'.chat_id)]_vars

====
